---- MODULE Spec2Model ----
(***************************************************************************)
(* Model of the Arena battle simulator (python/arena): the dice engine,    *)
(* the Monster/Character hit-point state, the Party container and the      *)
(* Arena.run / run_sim / run_one_cycle simulation loop.                    *)
(*                                                                         *)
(* Objects are modelled as a heap: `monsters` maps the identity of every   *)
(* live Monster/Character object to its fields, and Party.members is a     *)
(* sequence of identities (Python list of references).                     *)
(***************************************************************************)
EXTENDS Integers, Sequences, FiniteSets, TLC

(***************************************************************************)
(* Bounds of the model (not program constants).                            *)
(***************************************************************************)
MaxYears == 2
MaxFights == 2
MaxFighters == 3
MaxLevel == 1
MaxArgs == 2
MaxObjs == 2
MaxSize == 3
MaxDamage == 2
MaxHeroLevel == 2

(***************************************************************************)
(* Program constants.                                                      *)
(***************************************************************************)
HIT_DIE_SIDES == 6
DAMAGE_DIE_SIDES == 8
DEFAULT_PARTY_SIZE == 1
PARAM_ERROR == -1

None == "None"

(***************************************************************************)
(* Generic helpers.                                                        *)
(***************************************************************************)
Range(s) == {s[k] : k \in 1..Len(s)}

Max2(a, b) == IF a >= b THEN a ELSE b

\* Number of positions of s holding x.
Count(s, x) == Cardinality({k \in 1..Len(s) : s[k] = x})

\* All sequences over S of length 0..n.
SeqsUpTo(S, n) == UNION {[1..k -> S] : k \in 0..n}

\* All rearrangements of the sequence s.
Permutations_of(s) ==
  LET n == Len(s)
      bij == {p \in [1..n -> 1..n] : \A a, b \in 1..n : p[a] = p[b] => a = b}
  IN {[k \in 1..n |-> s[p[k]]] : p \in bij}

(***************************************************************************)
(* dice.py: Dice                                                           *)
(***************************************************************************)
Dice(number, sides, multiplier, addition) ==
  [number |-> number, sides |-> sides, multiplier |-> multiplier, addition |-> addition]

\* sum(random.randint(1, sides) for _ in range(number)): every value the sum
\* of `number` independent draws in 1..sides can take (0 for number <= 0).
RECURSIVE DrawSums(_, _)
DrawSums(number, sides) ==
  IF number <= 0 THEN {0}
  ELSE {s + r : s \in DrawSums(number - 1, sides), r \in 1..sides}

Abs(x) == IF x < 0 THEN -x ELSE x

\* The multiplier, addition and clamp steps of Dice.roll applied to a sum.
RollFinish(d, sum) ==
  LET m == IF d.multiplier > 0 THEN sum * d.multiplier
           ELSE IF d.multiplier < 0 THEN sum \div Abs(d.multiplier)
           ELSE sum
  IN Max2(m + d.addition, 0)

\* Every result Dice.roll can return.
RollOutcomes(d) == {RollFinish(d, s) : s \in DrawSums(d.number, d.sides)}

(***************************************************************************)
(* monster.py / character.py: hit-point state of one combatant.            *)
(* h is the heap (identity -> fields), m an identity.                      *)
(***************************************************************************)
\* Character.__init__ with the hit points hp of its last roll_hit_points.
NewCharacter(level, hp) ==
  [hit_points |-> hp, max_hit_points |-> hp, level |-> level]

\* Arena.new_fighter for the Arena a: a Character of level a.start_level with
\* no experience and no kills, wearing armor of the base type (None: no
\* armor) and holding a sword.
new_fighter(a, hp) ==
  LET fighter == NewCharacter(a.start_level, hp)
  IN [hit_points |-> fighter.hit_points, max_hit_points |-> fighter.max_hit_points,
      level |-> fighter.level, experience_points |-> 0, kill_tally |-> 0,
      armor_worn |-> a.base_armor_type, weapon_in_hand |-> "Sword"]

\* The hit dice a Character of the given level is built with: Dice(level, 6).
CharacterHitDice(level) == Dice(level, HIT_DIE_SIDES, 1, 0)

is_alive(h, m) == h[m].hit_points > 0

\* Variant: a monster at exactly 0 hit points does not count as dead.
is_dead_strict(h, m) == h[m].hit_points < 0

is_dead(h, m) == h[m].hit_points <= 0

\* Variant: hit points stop at zero.
take_damage_floored(h, m, damage) ==
  [h EXCEPT ![m].hit_points = Max2(@ - damage, 0)]

\* Variant: a wound lowers the maximum as well.
take_damage_wounding(h, m, damage) ==
  [h EXCEPT ![m].hit_points = @ - damage, ![m].max_hit_points = @ - damage]

take_damage(h, m, damage) == [h EXCEPT ![m].hit_points = @ - damage]

\* Variant: healing only ever raises the hit points.
heal_fully_only_up(h, m) ==
  [h EXCEPT ![m].hit_points = Max2(@, h[m].max_hit_points)]

heal_fully(h, m) == [h EXCEPT ![m].hit_points = h[m].max_hit_points]

(***************************************************************************)
(* party.py: Party.  mem is Party.members (a sequence of identities).      *)
(***************************************************************************)
add_member(mem, m) == Append(mem, m)

\* list.remove: drops the first occurrence, when there is one.
remove_member(mem, m) ==
  IF m \in Range(mem)
  THEN LET k == CHOOSE j \in 1..Len(mem) :
                  mem[j] = m /\ \A q \in 1..(j - 1) : mem[q] # m
       IN SubSeq(mem, 1, k - 1) \o SubSeq(mem, k + 1, Len(mem))
  ELSE mem

get_size(mem) == Len(mem)

\* Variant: the dead are kept on the list.
get_living_members_everyone(mem, h) == mem

get_living_members(mem, h) == SelectSeq(mem, LAMBDA m : is_alive(h, m))

\* Variant: members at exactly 0 hit points are not collected.
get_dead_members_strict(mem, h) == SelectSeq(mem, LAMBDA m : h[m].hit_points < 0)

get_dead_members(mem, h) == SelectSeq(mem, LAMBDA m : is_dead(h, m))

num_living(mem, h) == Len(get_living_members(mem, h))

num_dead(mem, h) == Len(get_dead_members(mem, h))

\* Party.get_highest_level_member: whether it raised, and what it returned
\* (<<>> for Python's None, <<m>> for the member m).  max() keeps the first
\* of the members of greatest level.
get_highest_level_member(mem, h) ==
  IF mem = <<>>
  THEN [raised |-> FALSE, value |-> <<>>]
  ELSE LET k == CHOOSE j \in 1..Len(mem) :
                  /\ \A q \in 1..Len(mem) : h[mem[q]].level <= h[mem[j]].level
                  /\ \A q \in 1..(j - 1) : h[mem[q]].level < h[mem[j]].level
       IN [raised |-> FALSE, value |-> <<mem[k]>>]

\* Variant: heal_all that heals nobody.
heal_all_nobody(mem, h) == h

\* Party.heal_all: heal_fully on every member.
RECURSIVE heal_all(_, _)
heal_all(mem, h) ==
  IF mem = <<>> THEN h ELSE heal_all(Tail(mem), heal_fully(h, Head(mem)))

\* Objects no longer referenced by the party or a held return value are dropped.
Collect(h, keep) == [m \in (DOMAIN h \cap keep) |-> h[m]]

(***************************************************************************)
(* arena.py: command-line arguments.  An argument is the sequence of its   *)
(* characters.                                                             *)
(***************************************************************************)
StartsWith(s, p) == Len(s) >= Len(p) /\ SubSeq(s, 1, Len(p)) = p

Digits == {"0", "1", "2", "3", "4", "5", "6", "7", "8", "9"}

DigitValue(c) ==
  CASE c = "0" -> 0 [] c = "1" -> 1 [] c = "2" -> 2 [] c = "3" -> 3
    [] c = "4" -> 4 [] c = "5" -> 5 [] c = "6" -> 6 [] c = "7" -> 7
    [] c = "8" -> 8 [] c = "9" -> 9

RECURSIVE DigitsValue(_)
DigitsValue(t) ==
  IF t = <<>> THEN 0
  ELSE 10 * DigitsValue(SubSeq(t, 1, Len(t) - 1)) + DigitValue(t[Len(t)])

Unsigned(t) == IF t # <<>> /\ t[1] \in {"+", "-"} THEN Tail(t) ELSE t

\* Texts int() accepts: an optional sign and one or more decimal digits.
IsIntText(t) == Unsigned(t) # <<>> /\ \A k \in 1..Len(Unsigned(t)) : Unsigned(t)[k] \in Digits

IntValue(t) ==
  IF t[1] = "-" THEN 0 - DigitsValue(Unsigned(t)) ELSE DigitsValue(Unsigned(t))

\* Arena._get_param_int: the value, and whether exit_after_args was set.
get_param_int(s) ==
  IF Len(s) > 3 /\ s[3] = "=" /\ IsIntText(SubSeq(s, 4, Len(s)))
  THEN [val |-> IntValue(SubSeq(s, 4, Len(s))), err |-> FALSE]
  ELSE [val |-> PARAM_ERROR, err |-> TRUE]

ArmorCodes == 0..3

armor_map(code) ==
  CASE code = 0 -> None [] code = 1 -> "LEATHER" [] code = 2 -> "CHAIN" [] code = 3 -> "PLATE"

\* Arena._set_base_armor_from_int
set_base_armor_from_int(a, code) ==
  IF code \in ArmorCodes
  THEN [a EXCEPT !.base_armor_type = armor_map(code)]
  ELSE [a EXCEPT !.exit_after_args = TRUE]

ReportLetters == {"s", "d", "k", "t", "x", "y"}

\* Arena._set_reporting_from_param_code: a.report is the set of the letters
\* whose report_* flag is on (s: fighter stats, y: year end, ...).
set_reporting_from_param_code(a, s) ==
  LET letters == {s[k] : k \in 3..Len(s)}
  IN [a EXCEPT !.report = (@ \ {"s"}) \cup (letters \cap ReportLetters),
               !.exit_after_args = @ \/ (letters \ ReportLetters # {})]

\* Variant: a well-formed value clears the flag an earlier argument set.
SetInt_overwriting(a, field, r) ==
  [a EXCEPT ![field] = r.val, !.exit_after_args = r.err]

SetInt(a, field, r) ==
  [a EXCEPT ![field] = r.val, !.exit_after_args = @ \/ r.err]

\* One iteration of the loop of Arena.parse_args, for argument arg.
parse_arg(a, arg) ==
  IF ~StartsWith(arg, <<"-">>) THEN a
  ELSE IF arg = <<"-", "?">> THEN [a EXCEPT !.exit_after_args = TRUE]
  ELSE IF StartsWith(arg, <<"-", "y", "=">>) THEN SetInt(a, "num_years", get_param_int(arg))
  ELSE IF StartsWith(arg, <<"-", "f", "=">>) THEN SetInt(a, "fights_per_year", get_param_int(arg))
  ELSE IF StartsWith(arg, <<"-", "n", "=">>) THEN SetInt(a, "num_fighters", get_param_int(arg))
  ELSE IF StartsWith(arg, <<"-", "l", "=">>) THEN SetInt(a, "start_level", get_param_int(arg))
  ELSE IF StartsWith(arg, <<"-", "p", "=">>) THEN SetInt(a, "fighter_party_size", get_param_int(arg))
  ELSE IF StartsWith(arg, <<"-", "a", "=">>)
    THEN LET r == get_param_int(arg)
         IN set_base_armor_from_int([a EXCEPT !.exit_after_args = @ \/ r.err], r.val)
  ELSE IF arg = <<"-", "m">> THEN [a EXCEPT !.fight_man_vs_monster = TRUE]
  ELSE IF arg = <<"-", "t">> THEN [a EXCEPT !.use_monster_treasure_type = TRUE]
  ELSE IF StartsWith(arg, <<"-", "r">>) THEN set_reporting_from_param_code(a, arg)
  ELSE [a EXCEPT !.exit_after_args = TRUE]

\* The arguments the model feeds to Arena.run.
ArgPool ==
  { <<"-", "?">>,
    <<"-", "y", "=", "1">>, <<"-", "y", "=", "0">>, <<"-", "y", "=">>, <<"-", "y", "=", "x">>,
    <<"-", "f", "=", "-", "1">>,
    <<"-", "n", "=", "2">>, <<"-", "n", "=", "0">>,
    <<"-", "l", "=", "0">>,
    <<"-", "p", "=", "0">>,
    <<"-", "a", "=", "2">>, <<"-", "a", "=", "4">>,
    <<"-", "m">>, <<"-", "t">>,
    <<"-", "r", "y">>, <<"-", "r", "q">>,
    <<"-", "z">>,
    <<"x">> }

(***************************************************************************)
(* State.                                                                  *)
(***************************************************************************)
VARIABLES
  arena,        \* the Arena object's configuration fields and exit_after_args
  args,         \* the arguments parse_args has still to read
  pc,           \* position of the caller inside Arena.run / run_sim / run_one_cycle
  year,         \* run_sim: the loop variable of the year loop
  cycle,        \* run_sim: cycles of the current year already run
  duel_i,       \* fight_duels_man_vs_man: the loop variable i (0-based)
  members,      \* fighter_list.members: identities, in list order
  monsters,     \* heap: identity -> fields of each live Monster/Character
  ret,          \* the last Party call observed and the value it returned
  calls,        \* history: the calls run_sim and run_one_cycle have made
  pre,          \* history: members and heap at entry of the call in progress
  engaged,      \* history: identities handed to _simple_combat this cycle
  blows,        \* history: who struck each blow of the duel in progress (1 or 2)
  start_alive,  \* history: both duelists were alive when the duel began
  death_seen,   \* history: some member had hit points <= 0 during this cycle
  size_after_recruit,  \* history: population size when recruit_new_fighters returned
  dice,         \* the Dice object a caller rolls and queries directly
  text,         \* the text a caller hands to Dice.from_string
  hero,         \* the Character a caller damages, heals, levels and equips directly
  item          \* the piece of Equipment a caller enchants directly

vars == <<arena, args, pc, year, cycle, duel_i, members, monsters, ret,
          calls, pre, engaged, blows, start_alive, death_seen, size_after_recruit,
          dice, text, hero, item>>

\* The objects only the direct callers of Dice, Character and Equipment touch.
bench == <<dice, text, hero, item>>

EmptyHeap == [m \in {} |-> 0]

NoSnapshot == [members |-> <<>>, monsters |-> EmptyHeap]

NoReturn == [op |-> "", val |-> <<>>]

Snapshot == [members |-> members, monsters |-> monsters]

\* Arena.__init__ followed by the caller's assignments to the count fields.
Configured(ny, fpy, nf, lvl, mvm) ==
  [num_years |-> ny, fights_per_year |-> fpy, num_fighters |-> nf,
   start_level |-> lvl, fighter_party_size |-> DEFAULT_PARTY_SIZE,
   fight_man_vs_monster |-> mvm, use_monster_treasure_type |-> FALSE,
   base_armor_type |-> "PLATE", report |-> {"s"}, exit_after_args |-> FALSE]

\* Configurations set by assignment (as the tests do), run without arguments.
DirectConfigs ==
  {Configured(ny, fpy, nf, lvl, mvm) :
     ny \in 0..MaxYears, fpy \in 0..MaxFights, nf \in (-1)..MaxFighters,
     lvl \in (-1)..MaxLevel, mvm \in BOOLEAN}

\* The configuration the argument lists are applied to.
BaseConfig == Configured(1, 1, 1, 1, FALSE)

Init ==
  /\ \/ arena \in DirectConfigs /\ args = <<>>
     \/ arena = BaseConfig /\ args \in (SeqsUpTo(ArgPool, MaxArgs) \ {<<>>})
  /\ pc = "parse_args"
  /\ year = 0
  /\ cycle = 0
  /\ duel_i = 0
  /\ members = <<>>
  /\ monsters = EmptyHeap
  /\ ret = NoReturn
  /\ calls = <<>>
  /\ pre = NoSnapshot
  /\ engaged = <<>>
  /\ blows = <<>>
  /\ start_alive = FALSE
  /\ death_seen = FALSE
  /\ size_after_recruit = 0
  /\ dice = None
  /\ text = <<>>
  /\ hero = None
  /\ item = None

history == <<calls, pre, engaged, blows, start_alive, death_seen, size_after_recruit>>
population == <<members, monsters>>
position == <<year, cycle, duel_i>>

Called(name) == Append(calls, <<name, year>>)

(***************************************************************************)
(* Arena.run: argument parsing and the decision to simulate.               *)
(***************************************************************************)
\* parse_args: one iteration of `while i < len(args)`.
ParseArg ==
  /\ UNCHANGED bench
  /\ pc = "parse_args"
  /\ args # <<>>
  /\ arena' = parse_arg(arena, Head(args))
  /\ args' = Tail(args)
  /\ UNCHANGED <<pc, position, population, ret, history>>

\* run: `if self.exit_after_args: return`, else banner, report_start, run_sim.
RunDecide ==
  /\ UNCHANGED bench
  /\ pc = "parse_args"
  /\ args = <<>>
  /\ IF arena.exit_after_args
     THEN pc' = "returned" /\ year' = year
     ELSE pc' = "run_sim" /\ year' = 1
  /\ UNCHANGED <<arena, args, cycle, duel_i, population, ret, history>>

(***************************************************************************)
(* Arena.run_sim                                                           *)
(***************************************************************************)
\* `for year in range(1, self.num_years + 1)`: next year, or run_sim returns.
YearLoop ==
  /\ UNCHANGED bench
  /\ pc = "run_sim"
  /\ IF year <= arena.num_years
     THEN pc' = "cycles" /\ cycle' = 0
     ELSE pc' = "final" /\ cycle' = cycle
  /\ UNCHANGED <<arena, args, year, duel_i, population, ret, history>>

\* Variant: the cycle loop runs once too often.
MoreCycles_inclusive == cycle <= arena.fights_per_year

\* `for _ in range(self.fights_per_year)`: the loop condition.
MoreCycles == cycle < arena.fights_per_year

\* Enter run_one_cycle for the next cycle of the year, or go on to year_end.
CycleLoop ==
  /\ UNCHANGED bench
  /\ pc = "cycles"
  /\ IF MoreCycles
     THEN /\ pc' = "recruit"
          /\ calls' = Called("recruit_new_fighters")
          /\ pre' = Snapshot
          /\ death_seen' = FALSE
          /\ size_after_recruit' = 0
     ELSE /\ pc' = "year_end"
          /\ UNCHANGED <<calls, pre, death_seen, size_after_recruit>>
  /\ UNCHANGED <<arena, args, position, population, ret, engaged, blows, start_alive>>

\* year_end(year), then the year loop advances.
YearEnd ==
  /\ UNCHANGED bench
  /\ pc = "year_end"
  /\ calls' = Called("year_end")
  /\ year' = year + 1
  /\ pc' = "run_sim"
  /\ UNCHANGED <<arena, args, cycle, duel_i, population, ret, pre, engaged, blows,
                 start_alive, death_seen, size_after_recruit>>

\* report_final_stats, and run returns.
ReportFinalStats ==
  /\ UNCHANGED bench
  /\ pc = "final"
  /\ pc' = "returned"
  /\ UNCHANGED <<arena, args, position, population, ret, history>>

(***************************************************************************)
(* Arena.run_one_cycle                                                     *)
(***************************************************************************)
\* The identity of a newly constructed object: the lowest one not in use (an
\* identity is free again once its object is unreferenced).
FreshId == CHOOSE m \in 1..(Cardinality(DOMAIN monsters) + 1) : m \notin DOMAIN monsters

\* Variant: recruiting stops one fighter late.
RecruitMore_inclusive == get_size(members) <= arena.num_fighters

\* recruit_new_fighters: the loop condition.
RecruitMore == get_size(members) < arena.num_fighters

\* recruit_new_fighters: one iteration of the while loop (new_fighter and
\* add_member), or the loop ends and the call returns.
RecruitLoop ==
  /\ UNCHANGED bench
  /\ pc = "recruit"
  /\ IF RecruitMore
     THEN \E hp \in RollOutcomes(CharacterHitDice(arena.start_level)) :
            /\ monsters' = (FreshId :> new_fighter(arena, hp)) @@ monsters
            /\ members' = add_member(members, FreshId)
            /\ death_seen' = (death_seen \/ hp <= 0)
            /\ UNCHANGED <<pc, size_after_recruit>>
     ELSE /\ pc' = "shuffle"
          /\ size_after_recruit' = get_size(members)
          /\ UNCHANGED <<population, death_seen>>
  /\ UNCHANGED <<arena, args, position, ret, calls, pre, engaged, blows, start_alive>>

\* fighter_list.shuffle_members(): random.shuffle may leave any order.
ShuffleMembers ==
  /\ UNCHANGED bench
  /\ pc = "shuffle"
  /\ \E order \in Permutations_of(members) : members' = order
  /\ calls' = Called("shuffle_members")
  /\ pre' = NoSnapshot
  /\ pc' = "fight"
  /\ UNCHANGED <<arena, args, position, monsters, ret, engaged, blows,
                 start_alive, death_seen, size_after_recruit>>

\* fight_duels: man vs. monster is a placeholder that fights nothing; man vs.
\* man starts the loop over the pairs.
FightDuels ==
  /\ UNCHANGED bench
  /\ pc = "fight"
  /\ calls' = Called("fight_duels")
  /\ pre' = Snapshot
  /\ engaged' = <<>>
  /\ duel_i' = 0
  /\ pc' = IF arena.fight_man_vs_monster THEN "cull" ELSE "pairs"
  /\ UNCHANGED <<arena, args, year, cycle, population, ret, blows, start_alive,
                 death_seen, size_after_recruit>>

\* Variant: the pair loop stops one pair early.
MorePairs_short == duel_i < Len(members) - 3

\* fight_duels_man_vs_man: `for i in range(0, len(members) - 1, 2)`.
MorePairs == duel_i < Len(members) - 1

fighter1 == members[duel_i + 1]
fighter2 == members[duel_i + 2]

\* Next pair: call _simple_combat(members[i], members[i + 1]); or the loop ends.
PairLoop ==
  /\ UNCHANGED bench
  /\ pc = "pairs"
  /\ IF MorePairs
     THEN /\ pc' = "combat"
          /\ engaged' = engaged \o <<fighter1, fighter2>>
          /\ blows' = <<>>
          /\ start_alive' = (is_alive(monsters, fighter1) /\ is_alive(monsters, fighter2))
     ELSE /\ pc' = "cull"
          /\ UNCHANGED <<engaged, blows, start_alive>>
  /\ UNCHANGED <<arena, args, position, population, ret, calls, pre, death_seen,
                 size_after_recruit>>

\* Variant: a blow may miss and deal no damage.
DamageRolls_with_miss == 0..DAMAGE_DIE_SIDES

DamageRolls == RollOutcomes(Dice(1, DAMAGE_DIE_SIDES, 1, 0))

\* _simple_combat: `while fighter1.is_alive() and fighter2.is_alive()`.
CombatContinues == is_alive(monsters, fighter1) /\ is_alive(monsters, fighter2)

CombatWhile ==
  /\ UNCHANGED bench
  /\ pc = "combat"
  /\ pc' = IF CombatContinues THEN "blow1" ELSE "combat_ret"
  /\ UNCHANGED <<arena, args, position, population, ret, history>>

\* Variant: no aliveness check between the two blows of a round.
NoBreakAfterBlow1(h) == FALSE

\* After fighter 1's blow: `if not fighter2.is_alive(): break`.
BreakAfterBlow1(h) == ~is_alive(h, fighter2)

\* Fighter 1 attacks.
Blow1 ==
  /\ UNCHANGED bench
  /\ pc = "blow1"
  /\ \E damage \in DamageRolls :
       LET h == take_damage(monsters, fighter2, damage)
       IN /\ monsters' = h
          /\ death_seen' = (death_seen \/ is_dead(h, fighter2))
          /\ pc' = IF BreakAfterBlow1(h) THEN "combat_ret" ELSE "blow2"
  /\ blows' = Append(blows, 1)
  /\ UNCHANGED <<arena, args, position, members, ret, calls, pre, engaged,
                 start_alive, size_after_recruit>>

\* Fighter 2 attacks, and the while loop tests again.
Blow2 ==
  /\ UNCHANGED bench
  /\ pc = "blow2"
  /\ \E damage \in DamageRolls :
       LET h == take_damage(monsters, fighter1, damage)
       IN /\ monsters' = h
          /\ death_seen' = (death_seen \/ is_dead(h, fighter1))
  /\ blows' = Append(blows, 2)
  /\ pc' = "combat"
  /\ UNCHANGED <<arena, args, position, members, ret, calls, pre, engaged,
                 start_alive, size_after_recruit>>

\* Variant: the pair loop advances by 1, so pairs overlap.
CombatReturn_step1 ==
  /\ UNCHANGED bench
  /\ pc = "combat_ret"
  /\ duel_i' = duel_i + 1
  /\ blows' = <<>>
  /\ start_alive' = FALSE
  /\ pc' = "pairs"
  /\ UNCHANGED <<arena, args, year, cycle, population, ret, calls, pre, engaged,
                 death_seen, size_after_recruit>>

\* _simple_combat has returned; the pair loop advances by 2.
CombatReturn ==
  /\ UNCHANGED bench
  /\ pc = "combat_ret"
  /\ duel_i' = duel_i + 2
  /\ blows' = <<>>
  /\ start_alive' = FALSE
  /\ pc' = "pairs"
  /\ UNCHANGED <<arena, args, year, cycle, population, ret, calls, pre, engaged,
                 death_seen, size_after_recruit>>

\* fighter_list.bring_out_your_dead(): the dead leave, and are returned.
BringOutYourDead ==
  /\ UNCHANGED bench
  /\ pc = "cull"
  /\ ret' = [op |-> "bring_out_your_dead", val |-> get_dead_members(members, monsters)]
  /\ members' = get_living_members(members, monsters)
  /\ calls' = Called("bring_out_your_dead")
  /\ pc' = "clear"
  /\ UNCHANGED <<arena, args, position, monsters, pre, engaged, blows,
                 start_alive, death_seen, size_after_recruit>>

\* fighter_list.clear_fallen(): bring_out_your_dead again, result dropped.  The
\* fighters returned by the first call are no longer referenced.
ClearFallen ==
  /\ UNCHANGED bench
  /\ pc = "clear"
  /\ members' = get_living_members(members, monsters)
  /\ monsters' = Collect(monsters, Range(members'))
  /\ ret' = NoReturn
  /\ calls' = Called("clear_fallen")
  /\ pre' = NoSnapshot
  /\ engaged' = <<>>
  /\ pc' = "heal"
  /\ UNCHANGED <<arena, args, position, blows, start_alive, death_seen,
                 size_after_recruit>>

\* fighter_list.heal_all(); run_one_cycle returns to the cycle loop.
HealAll ==
  /\ UNCHANGED bench
  /\ pc = "heal"
  /\ monsters' = heal_all(members, monsters)
  /\ calls' = Called("heal_all")
  /\ cycle' = cycle + 1
  /\ pc' = "cycles"
  /\ UNCHANGED <<arena, args, year, duel_i, members, ret, pre, engaged,
                 blows, start_alive, death_seen, size_after_recruit>>

Next ==
  \/ ParseArg
  \/ RunDecide
  \/ YearLoop
  \/ CycleLoop
  \/ RecruitLoop
  \/ ShuffleMembers
  \/ FightDuels
  \/ PairLoop
  \/ CombatWhile
  \/ Blow1
  \/ Blow2
  \/ CombatReturn
  \/ BringOutYourDead
  \/ ClearFallen
  \/ HealAll
  \/ YearEnd
  \/ ReportFinalStats

Spec == Init /\ [][Next]_vars

(***************************************************************************)
(* A Party driven directly: a caller holds MaxObjs monsters and applies    *)
(* Party and Monster operations to them in any order (tests/test_basic.py, *)
(* examples.py).  The same object may be added more than once.             *)
(***************************************************************************)
\* Monster(hit_dice=Dice(1, sides)) after Monster.__init__'s roll_hit_points.
NewMonster(hit_dice, hp) ==
  [hit_points |-> hp, max_hit_points |-> hp, level |-> hit_dice.number]

\* The caller's monsters are built with hit dice 1d2.
PartyHitDice == Dice(1, 2, 1, 0)

PartyInit ==
  /\ arena = BaseConfig
  /\ args = <<>>
  /\ pc = "party"
  /\ year = 0
  /\ cycle = 0
  /\ duel_i = 0
  /\ members = <<>>
  /\ monsters \in [1..MaxObjs -> {NewMonster(PartyHitDice, hp) : hp \in RollOutcomes(PartyHitDice)}]
  /\ ret = NoReturn
  /\ calls = <<>>
  /\ pre = NoSnapshot
  /\ engaged = <<>>
  /\ blows = <<>>
  /\ start_alive = FALSE
  /\ death_seen = FALSE
  /\ size_after_recruit = 0
  /\ dice = None
  /\ text = <<>>
  /\ hero = None
  /\ item = None

Returned(name, value) == [op |-> name, val |-> value]

PartyAddMember ==
  /\ UNCHANGED bench
  /\ pc = "party"
  /\ Len(members) < MaxSize
  /\ \E m \in DOMAIN monsters : members' = add_member(members, m)
  /\ ret' = Returned("add_member", <<>>)
  /\ UNCHANGED <<arena, args, pc, position, monsters, history>>

PartyRemoveMember ==
  /\ UNCHANGED bench
  /\ pc = "party"
  /\ \E m \in DOMAIN monsters : members' = remove_member(members, m)
  /\ ret' = Returned("remove_member", <<>>)
  /\ UNCHANGED <<arena, args, pc, position, monsters, history>>

PartyShuffleMembers ==
  /\ UNCHANGED bench
  /\ pc = "party"
  /\ \E order \in Permutations_of(members) : members' = order
  /\ ret' = Returned("shuffle_members", <<>>)
  /\ UNCHANGED <<arena, args, pc, position, monsters, history>>

\* member.take_damage(damage) on a living object of the party (which bounds
\* the hit points from below); returns whether it is still alive.
PartyTakeDamage ==
  /\ UNCHANGED bench
  /\ pc = "party"
  /\ \E m \in Range(members), damage \in 0..MaxDamage :
       /\ is_alive(monsters, m)
       /\ monsters' = take_damage(monsters, m, damage)
       /\ ret' = Returned("take_damage", <<is_alive(monsters', m)>>)
  /\ UNCHANGED <<arena, args, pc, position, members, history>>

PartyHealAll ==
  /\ UNCHANGED bench
  /\ pc = "party"
  /\ monsters' = heal_all(members, monsters)
  /\ ret' = Returned("heal_all", <<>>)
  /\ UNCHANGED <<arena, args, pc, position, members, history>>

PartyBringOutYourDead ==
  /\ UNCHANGED bench
  /\ pc = "party"
  /\ ret' = Returned("bring_out_your_dead", get_dead_members(members, monsters))
  /\ members' = get_living_members(members, monsters)
  /\ UNCHANGED <<arena, args, pc, position, monsters, history>>

PartyGetLivingMembers ==
  /\ UNCHANGED bench
  /\ pc = "party"
  /\ ret' = Returned("get_living_members", get_living_members(members, monsters))
  /\ UNCHANGED <<arena, args, pc, position, population, history>>

PartyGetDeadMembers ==
  /\ UNCHANGED bench
  /\ pc = "party"
  /\ ret' = Returned("get_dead_members", get_dead_members(members, monsters))
  /\ UNCHANGED <<arena, args, pc, position, population, history>>

\* num_living() and num_dead(), one after the other.
PartyCount ==
  /\ UNCHANGED bench
  /\ pc = "party"
  /\ ret' = Returned("num_living, num_dead",
                     <<num_living(members, monsters), num_dead(members, monsters)>>)
  /\ UNCHANGED <<arena, args, pc, position, population, history>>

PartyNext ==
  \/ PartyAddMember
  \/ PartyRemoveMember
  \/ PartyShuffleMembers
  \/ PartyTakeDamage
  \/ PartyHealAll
  \/ PartyBringOutYourDead
  \/ PartyGetLivingMembers
  \/ PartyGetDeadMembers
  \/ PartyCount

SpecParty == PartyInit /\ [][PartyNext]_vars

(***************************************************************************)
(* The aggregate queries of a Party whose monsters differ in level.        *)
(***************************************************************************)
\* Party.get_average_level: 0.0 for an empty party, else the quotient
\* sum / len, kept as the pair of its numerator and denominator.
RECURSIVE SumLevels(_, _)
SumLevels(mem, h) ==
  IF mem = <<>> THEN 0 ELSE h[mem[1]].level + SumLevels(Tail(mem), h)

get_average_level(mem, h) ==
  IF mem = <<>> THEN [num |-> 0, den |-> 1]
  ELSE [num |-> SumLevels(mem, h), den |-> Len(mem)]

QueryInit ==
  /\ arena = BaseConfig
  /\ args = <<>>
  /\ pc = "party"
  /\ year = 0
  /\ cycle = 0
  /\ duel_i = 0
  /\ members = <<>>
  /\ monsters \in [1..MaxObjs ->
                     UNION {{NewMonster(Dice(number, 2, 1, 0), points) :
                               points \in RollOutcomes(Dice(number, 2, 1, 0))} :
                            number \in 1..MaxHeroLevel}]
  /\ ret = NoReturn
  /\ calls = <<>>
  /\ pre = NoSnapshot
  /\ engaged = <<>>
  /\ blows = <<>>
  /\ start_alive = FALSE
  /\ death_seen = FALSE
  /\ size_after_recruit = 0
  /\ dice = None
  /\ text = <<>>
  /\ hero = None
  /\ item = None

PartyGetHighestLevelMember ==
  /\ UNCHANGED bench
  /\ pc = "party"
  /\ ret' = Returned("get_highest_level_member", get_highest_level_member(members, monsters))
  /\ UNCHANGED <<arena, args, pc, position, population, history>>

PartyGetAverageLevel ==
  /\ UNCHANGED bench
  /\ pc = "party"
  /\ ret' = Returned("get_average_level", get_average_level(members, monsters))
  /\ UNCHANGED <<arena, args, pc, position, population, history>>

QueryNext ==
  \/ PartyAddMember
  \/ PartyRemoveMember
  \/ PartyGetHighestLevelMember
  \/ PartyGetAverageLevel

SpecPartyQueries == QueryInit /\ [][QueryNext]_vars

(***************************************************************************)
(* Properties.                                                             *)
(***************************************************************************)
IsPrefix(a, b) == Len(a) <= Len(b) /\ SubSeq(b, 1, Len(a)) = a

RECURSIVE Repeat(_, _)
Repeat(s, n) == IF n <= 0 THEN <<>> ELSE s \o Repeat(s, n - 1)

\* The calls one cycle of year y is to make, in order.
CycleCalls(y) ==
  << <<"recruit_new_fighters", y>>, <<"shuffle_members", y>>, <<"fight_duels", y>>,
     <<"bring_out_your_dead", y>>, <<"heal_all", y>> >>

\* The calls of the years y..ny: fpy cycles and then year_end, year after year.
RECURSIVE Schedule(_, _, _)
Schedule(y, ny, fpy) ==
  IF y > ny THEN <<>>
  ELSE Repeat(CycleCalls(y), fpy) \o << <<"year_end", y>> >> \o Schedule(y + 1, ny, fpy)

\* The calls made so far, without the second cull of clear_fallen.
NamedCalls == SelectSeq(calls, LAMBDA c : c[1] # "clear_fallen")

SimulationOver == pc = "final" \/ (pc = "returned" /\ ~arena.exit_after_args)

hp(m) == monsters[m].hit_points

\* C1: run_sim makes its calls in the scheduled order: for each year 1..num_years,
\* fights_per_year cycles of recruit, shuffle, fight, cull, heal, then year_end
\* once; each call has finished when the next begins (recruiting has reached the
\* target, every pair has fought), and when run_sim is over the whole schedule
\* has been made.
C1_Schedule ==
  LET expected == Schedule(1, arena.num_years, arena.fights_per_year)
  IN /\ IsPrefix(NamedCalls, expected)
     /\ (SimulationOver => NamedCalls = expected)
     /\ (pc = "shuffle" => Len(members) >= arena.num_fighters)
     /\ (pc = "cull" /\ ~arena.fight_man_vs_monster => duel_i >= Len(members) - 1)
     /\ (pc = "year_end" => cycle = Max2(arena.fights_per_year, 0))

\* C1 witness: a simulation of two years of two cycles each has run to its end.
C1_Witness ==
  /\ pc = "returned"
  /\ arena.num_years = 2
  /\ arena.fights_per_year = 2
  /\ Len(NamedCalls) = 22
  /\ members # <<>>

InDuel == pc \in {"combat", "blow1", "blow2", "combat_ret"}

\* C2: in a duel begun with both fighters alive, blows alternate starting with
\* fighter 1, whoever is about to strike is alive and so is the target, never are
\* both dead, and when the duel returns exactly one of the two is dead.
C2_Duel ==
  (InDuel /\ start_alive) =>
    /\ \A k \in 1..Len(blows) : blows[k] = (IF k % 2 = 1 THEN 1 ELSE 2)
    /\ (pc = "blow1" => hp(fighter1) > 0 /\ hp(fighter2) > 0)
    /\ (pc = "blow2" => hp(fighter2) > 0 /\ hp(fighter1) > 0 /\ blows[Len(blows)] = 1)
    /\ ~(hp(fighter1) <= 0 /\ hp(fighter2) <= 0)
    /\ (pc = "combat_ret" => (hp(fighter1) <= 0) # (hp(fighter2) <= 0))

\* C2 witness: a duel has returned after at least four blows, fighter 1 dead.
C2_Witness ==
  /\ pc = "combat_ret"
  /\ start_alive
  /\ Len(blows) >= 4
  /\ hp(fighter1) <= 0
  /\ hp(fighter2) > 0

\* C3: when fight_duels has returned in man-vs-man mode, the fighters that
\* duelled are exactly positions (0,1), (2,3), ... of the shuffled list, nobody
\* duelled twice, and with an odd population the last member alone did not
\* duel and has the hit points it had when fight_duels began.
C3_Pairing ==
  /\ (pc \in {"pairs", "cull"} \cup {"combat", "blow1", "blow2", "combat_ret"}
        => \A m \in Range(members) : Count(engaged, m) <= 1)
  /\ (pc = "cull" /\ ~arena.fight_man_vs_monster =>
        LET n == Len(members)
        IN /\ members = pre.members
           /\ engaged = SubSeq(members, 1, 2 * (n \div 2))
           /\ (n % 2 = 1 =>
                 /\ Range(members) \ Range(engaged) = {members[n]}
                 /\ monsters[members[n]] = pre.monsters[members[n]]))

\* C3 witness: fight_duels has returned for three living fighters.
C3_Witness ==
  /\ pc = "cull"
  /\ ~arena.fight_man_vs_monster
  /\ Len(members) = 3
  /\ Len(engaged) = 2
  /\ death_seen
  /\ hp(members[3]) > 0

\* The members of s that are in the set keep, in the order of s.
RECURSIVE Restrict(_, _)
Restrict(s, keep) ==
  IF s = <<>> THEN <<>>
  ELSE (IF Head(s) \in keep THEN <<Head(s)>> ELSE <<>>) \o Restrict(Tail(s), keep)

\* C4: a bring_out_your_dead step returns exactly the members with hit points
\* <= 0, in their order, keeps exactly the members with hit points > 0, in
\* their order, changes no hit points and leaves no dead member.
C4_Cull ==
  [][ret'.op = "bring_out_your_dead" =>
       LET dead == {m \in Range(members) : monsters[m].hit_points <= 0}
           live == {m \in Range(members) : monsters[m].hit_points > 0}
       IN /\ ret'.val = Restrict(members, dead)
          /\ members' = Restrict(members, live)
          /\ Len(ret'.val) + Len(members') = Len(members)
          /\ monsters' = monsters
          /\ \A m \in Range(members') : monsters'[m].hit_points > 0
          /\ num_dead(members', monsters') = 0]_vars

\* C4 witness: a cull has returned two dead members and kept a living one.
C4_Witness ==
  /\ ret.op = "bring_out_your_dead"
  /\ Len(ret.val) >= 2
  /\ Len(members) >= 1

Queries == {"get_living_members", "get_dead_members", "num_living, num_dead"}

\* C5: in every state of a party the living and the dead members are disjoint
\* and together hold every member as often as the party does, so that
\* num_living() + num_dead() = get_size(); and a step that only queries them
\* changes neither the members, their order, nor any hit points.
C5_Partition ==
  /\ [](LET living == get_living_members(members, monsters)
            dead == get_dead_members(members, monsters)
        IN /\ Range(living) \cap Range(dead) = {}
           /\ \A m \in DOMAIN monsters :
                Count(living, m) + Count(dead, m) = Count(members, m)
           /\ num_living(members, monsters) + num_dead(members, monsters) = get_size(members)
           /\ (ret.op = "num_living, num_dead" => ret.val[1] + ret.val[2] = get_size(members)))
  /\ [][ret'.op \in Queries => members' = members /\ monsters' = monsters]_vars

\* C5 witness: the counts were taken of a party with a living member, a member
\* at exactly 0 hit points and three members in all.
C5_Witness ==
  /\ ret.op = "num_living, num_dead"
  /\ ret.val[1] >= 1
  /\ ret.val[2] >= 1
  /\ Len(members) = 3
  /\ \E m \in Range(members) : monsters[m].hit_points = 0

CycleReturned == pc = "cycles" /\ cycle > 0

\* C6: when run_one_cycle has returned every member is at its maximum hit
\* points, and if nobody was at <= 0 hit points during the cycle the population
\* has the size it had right after recruitment.
C6_CycleEnd ==
  CycleReturned =>
    /\ \A m \in Range(members) : monsters[m].hit_points = monsters[m].max_hit_points
    /\ (~death_seen => Len(members) = size_after_recruit)

\* C6 witness: a cycle without any death has returned with a fighter in the
\* population.
C6_Witness ==
  /\ CycleReturned
  /\ ~death_seen
  /\ members # <<>>
  /\ ~arena.fight_man_vs_monster

RecruitReturned == pc = "shuffle"

\* C7: when recruit_new_fighters has returned the population has size
\* max(size before, num_fighters), the earlier members come first, in their
\* order and unchanged, and every later one is a new object of level start_level.
C7_Recruit ==
  RecruitReturned =>
    LET old == pre.members
    IN /\ Len(members) = Max2(Len(old), arena.num_fighters)
       /\ SubSeq(members, 1, Len(old)) = old
       /\ \A m \in Range(old) : monsters[m] = pre.monsters[m]
       /\ \A k \in (Len(old) + 1)..Len(members) :
            /\ members[k] \notin DOMAIN pre.monsters
            /\ Count(members, members[k]) = 1
            /\ monsters[members[k]].level = arena.start_level

\* C7 witness: recruitment has added fighters behind survivors of an earlier cycle.
C7_Witness ==
  /\ RecruitReturned
  /\ pre.members # <<>>
  /\ Len(members) > Len(pre.members)

InvalidConfiguration ==
  \/ arena.num_years <= 0
  \/ arena.fights_per_year <= 0
  \/ arena.num_fighters <= 0
  \/ arena.start_level <= 0
  \/ arena.fighter_party_size <= 0

\* C8: with a zero or negative count in the configuration (arguments all read)
\* Arena.run executes no cycle and the population stays empty.
C8_NoRunOnInvalid ==
  (args = <<>> /\ InvalidConfiguration) => (calls = <<>> /\ members = <<>>)

\* C10: in man-vs-monster mode, when fight_duels has returned every member of
\* the population has been engaged in a fight.
C10_MonsterFights ==
  (arena.fight_man_vs_monster /\ pc = "cull") =>
    \A m \in Range(members) : m \in Range(engaged)

(***************************************************************************)
(* dice.py driven directly: a caller builds a Dice, either with the        *)
(* constructor or from text with Dice.from_string, and then rolls it and   *)
(* asks for its bounds in any order.                                       *)
(***************************************************************************)
MaxNumber == 2
MaxSides == 3
MaxMultiplier == 2
MaxAddition == 2

RECURSIVE SumSeq(_)
SumSeq(q) == IF q = <<>> THEN 0 ELSE q[1] + SumSeq(Tail(q))

\* Dice.roll for the given outcomes of the random.randint(1, sides) draws.
roll(d, draws) ==
  LET result0 == SumSeq(draws)
      result1 == IF d.multiplier > 0 THEN result0 * d.multiplier
                 ELSE IF d.multiplier < 0 THEN result0 \div Abs(d.multiplier)
                 ELSE result0
      result2 == result1 + d.addition
  IN Max2(result2, 0)

\* The outcomes the draws of one roll can have: range(number) draws, each
\* random.randint(1, sides).
Draws(d) == [1..d.number -> 1..d.sides]

\* random.randint(1, sides) raises ValueError for an empty range.
RollRaises(d) == d.number > 0 /\ d.sides < 1

max_roll_unscaled(d) == Max2(d.number * d.sides + d.addition, 0)

max_roll(d) ==
  LET result0 == d.number * d.sides
      result1 == IF d.multiplier > 0 THEN result0 * d.multiplier
                 ELSE IF d.multiplier < 0 THEN result0 \div Abs(d.multiplier)
                 ELSE result0
      result2 == result1 + d.addition
  IN Max2(result2, 0)

min_roll(d) ==
  LET result0 == d.number
      result1 == IF d.multiplier > 0 THEN result0 * d.multiplier
                 ELSE IF d.multiplier < 0 THEN result0 \div Abs(d.multiplier)
                 ELSE result0
      result2 == result1 + d.addition
  IN Max2(result2, 0)

(***************************************************************************)
(* Dice.from_string.  Text is a sequence of one-character strings.         *)
(***************************************************************************)
RECURSIVE lstrip(_)
lstrip(t) == IF t # <<>> /\ t[1] = " " THEN lstrip(Tail(t)) ELSE t

RECURSIVE rstrip(_)
rstrip(t) ==
  IF t # <<>> /\ t[Len(t)] = " " THEN rstrip(SubSeq(t, 1, Len(t) - 1)) ELSE t

\* str.strip()
strip(t) == rstrip(lstrip(t))

\* The length of the longest run of decimal digits of s that starts at i.
RECURSIVE DigitRun(_, _)
DigitRun(s, i) ==
  IF i <= Len(s) /\ s[i] \in Digits THEN 1 + DigitRun(s, i + 1) ELSE 0

\* re.match(r'(\d*)d(\d+)(?:([*/])(\d+))?(?:([+\-])(\d+))?', s, re.IGNORECASE):
\* the match starts at the first character and takes the longest digit runs;
\* an optional group that cannot match is skipped, and the match ends where
\* the last group ends, wherever in s that is.  A group that did not take
\* part is the empty text.
re_match(s) ==
  LET n0 == DigitRun(s, 1)
      dpos == n0 + 1
      n1 == DigitRun(s, dpos + 1)
      p == dpos + 1 + n1
      n2 == DigitRun(s, p + 1)
      hasMul == p <= Len(s) /\ s[p] \in {"*", "/"} /\ n2 >= 1
      q == IF hasMul THEN p + 1 + n2 ELSE p
      n3 == DigitRun(s, q + 1)
      hasAdd == q <= Len(s) /\ s[q] \in {"+", "-"} /\ n3 >= 1
      e == IF hasAdd THEN q + 1 + n3 ELSE q
  IN IF dpos <= Len(s) /\ s[dpos] \in {"d", "D"} /\ n1 >= 1
     THEN [matched |-> TRUE,
           groups |-> << SubSeq(s, 1, n0),
                         SubSeq(s, dpos + 1, p - 1),
                         IF hasMul THEN <<s[p]>> ELSE <<>>,
                         IF hasMul THEN SubSeq(s, p + 1, q - 1) ELSE <<>>,
                         IF hasAdd THEN <<s[q]>> ELSE <<>>,
                         IF hasAdd THEN SubSeq(s, q + 1, e - 1) ELSE <<>> >>,
           end |-> e - 1]
     ELSE [matched |-> FALSE, groups |-> <<>>, end |-> 0]

\* Dice.from_string: the exception raised (or None) and the Dice returned.
from_string(dice_str) ==
  LET match == re_match(strip(dice_str))
      groups == match.groups
      number == IF groups[1] # <<>> THEN DigitsValue(groups[1]) ELSE 1
      sides == DigitsValue(groups[2])
      mul_value == DigitsValue(groups[4])
      multiplier == IF groups[3] # <<>> /\ groups[4] # <<>>
                    THEN (IF groups[3] = <<"*">> THEN mul_value ELSE 0 - mul_value)
                    ELSE 1
      add_value == DigitsValue(groups[6])
      addition == IF groups[5] # <<>> /\ groups[6] # <<>>
                  THEN (IF groups[5] = <<"+">> THEN add_value ELSE 0 - add_value)
                  ELSE 0
  IN IF ~match.matched
     THEN [raised |-> "ValueError", dice |-> None]
     ELSE [raised |-> None, dice |-> Dice(number, sides, multiplier, addition)]

\* Dice built with the constructor.
DirectDice ==
  {Dice(number, sides, multiplier, addition) :
     number \in 0..MaxNumber, sides \in 1..MaxSides,
     multiplier \in (0 - MaxMultiplier)..MaxMultiplier,
     addition \in (0 - MaxAddition)..MaxAddition}

\* Texts handed to from_string.
DiceTexts ==
  { <<"d", "2">>, <<"D", "2">>, <<"2", "d", "2">>, <<"0", "d", "2">>, <<"2", "d", "0">>,
    <<" ", "2", "d", "3", " ">>,
    <<"2", "d", "3", "+", "1">>, <<"2", "d", "2", "-", "3">>,
    <<"2", "d", "2", "*", "2">>, <<"2", "d", "3", "/", "2">>,
    <<"2", "d", "2", "*", "0">>, <<"2", "d", "2", "/", "0">>,
    <<"2", "d", "2", "*", "2", "+", "1">>, <<"2", "d", "3", "/", "2", "-", "1">>,
    <<"2", "d", "2", "x">>, <<"2", "d", "2", "+">>, <<"2", "d", "2", "*">>,
    <<"2", "d", "2", "+", "1", "*", "2">>, <<"2", "d", "2", " ", "+", "1">>,
    <<"2", "d">>, <<"x", "2", "d", "2">>, <<"2">>, <<>> }

DiceInit ==
  /\ arena = BaseConfig
  /\ args = <<>>
  /\ \/ pc = "dice" /\ dice \in DirectDice /\ text = <<>>
     \/ pc = "from_string" /\ dice = None /\ text \in DiceTexts
  /\ year = 0
  /\ cycle = 0
  /\ duel_i = 0
  /\ members = <<>>
  /\ monsters = EmptyHeap
  /\ ret = NoReturn
  /\ calls = <<>>
  /\ pre = NoSnapshot
  /\ engaged = <<>>
  /\ blows = <<>>
  /\ start_alive = FALSE
  /\ death_seen = FALSE
  /\ size_after_recruit = 0
  /\ hero = None
  /\ item = None

arena_side == <<arena, args, position, population, history, item>>

\* dice = Dice.from_string(text)
DiceFromString ==
  /\ pc = "from_string"
  /\ LET r == from_string(text)
     IN IF r.raised # None
        THEN /\ pc' = "raised"
             /\ ret' = Returned("from_string", <<r.raised>>)
             /\ UNCHANGED dice
        ELSE /\ pc' = "dice"
             /\ dice' = r.dice
             /\ ret' = Returned("from_string", <<>>)
  /\ UNCHANGED <<arena_side, text, hero>>

\* dice.roll(): the result and, for reference, the draws it summed.
DiceRoll ==
  /\ pc = "dice"
  /\ IF RollRaises(dice)
     THEN ret' = Returned("roll", <<"ValueError">>)
     ELSE \E draws \in Draws(dice) : ret' = Returned("roll", <<roll(dice, draws), draws>>)
  /\ UNCHANGED <<arena_side, pc, dice, text, hero>>

DiceMaxRoll ==
  /\ pc = "dice"
  /\ ret' = Returned("max_roll", <<max_roll(dice)>>)
  /\ UNCHANGED <<arena_side, pc, dice, text, hero>>

DiceMinRoll ==
  /\ pc = "dice"
  /\ ret' = Returned("min_roll", <<min_roll(dice)>>)
  /\ UNCHANGED <<arena_side, pc, dice, text, hero>>

DiceNext ==
  \/ DiceFromString
  \/ DiceRoll
  \/ DiceMaxRoll
  \/ DiceMinRoll

SpecDice == DiceInit /\ [][DiceNext]_vars

Rolled == pc = "dice" /\ ret.op = "roll" /\ Len(ret.val) = 2

\* C11: for every dice with number >= 0 and sides >= 1, whatever multiplier
\* and addition, every result of roll() lies between min_roll() and
\* max_roll(); min_roll() and max_roll() are what roll() computes when every
\* draw is 1, respectively sides; max_roll() and min_roll() return exactly
\* these values.
C11_RollWithinBounds ==
  (pc = "dice" /\ dice.number >= 0 /\ dice.sides >= 1) =>
    /\ Rolled => (min_roll(dice) <= ret.val[1] /\ ret.val[1] <= max_roll(dice))
    /\ min_roll(dice) = roll(dice, [k \in 1..dice.number |-> 1])
    /\ max_roll(dice) = roll(dice, [k \in 1..dice.number |-> dice.sides])
    /\ ret.op = "max_roll" => ret.val = <<max_roll(dice)>>
    /\ ret.op = "min_roll" => ret.val = <<min_roll(dice)>>

\* A 2dN roll scaled by 2 whose scaled, shifted result is the maximum.
C11_Witness ==
  /\ Rolled
  /\ dice.number = 2 /\ dice.multiplier = 2 /\ dice.addition # 0
  /\ ret.val[1] = max_roll(dice)
  /\ ret.val[1] > min_roll(dice)

\* The texts of the grammar [count]'d'sides[('*'|'/')magnitude][('+'|'-')amount],
\* read as a whole: count, sides, magnitude and amount are runs of decimal
\* digits (count may be empty), the letter d in either case.
AllDigits(t) == \A k \in 1..Len(t) : t[k] \in Digits

SignedTerm(t, signs) ==
  t = <<>> \/ (Len(t) >= 2 /\ t[1] \in signs /\ AllDigits(Tail(t)))

InGrammar(s) ==
  \E dpos \in 1..Len(s), p \in 1..Len(s), q \in 1..Len(s) :
    /\ dpos < p /\ p <= q
    /\ AllDigits(SubSeq(s, 1, dpos - 1))
    /\ s[dpos] \in {"d", "D"}
    /\ AllDigits(SubSeq(s, dpos + 1, p))
    /\ SignedTerm(SubSeq(s, p + 1, q), {"*", "/"})
    /\ SignedTerm(SubSeq(s, q + 1, Len(s)), {"+", "-"})

\* What a text of the grammar says: its count (1 if omitted), sides and addend.
LetterAt(s) == CHOOSE k \in 1..Len(s) : s[k] \in {"d", "D"}

WrittenCount(s) ==
  IF LetterAt(s) = 1 THEN 1 ELSE DigitsValue(SubSeq(s, 1, LetterAt(s) - 1))

WrittenSides(s) ==
  DigitsValue(SubSeq(s, LetterAt(s) + 1, LetterAt(s) + DigitRun(s, LetterAt(s) + 1)))

WrittenAddend(s) ==
  IF \E k \in 1..Len(s) : s[k] \in {"+", "-"}
  THEN LET k == CHOOSE k \in 1..Len(s) : s[k] \in {"+", "-"}
           amount == DigitsValue(SubSeq(s, k + 1, Len(s)))
       IN IF s[k] = "+" THEN amount ELSE 0 - amount
  ELSE 0

FromStringDone == pc = "raised" \/ (pc = "dice" /\ text # <<>>)

\* C12: from_string raises for every text that, stripped of surrounding
\* blanks, is not a text of the whole grammar, and so never returns a Dice
\* for it; for a text of the grammar it returns a Dice whose number is the
\* count written (1 if omitted) and whose sides and addition are those
\* written.
C12_FromStringRejectsMalformed ==
  FromStringDone =>
    IF InGrammar(strip(text))
    THEN /\ pc = "dice"
         /\ dice.number = WrittenCount(strip(text))
         /\ dice.sides = WrittenSides(strip(text))
         /\ dice.addition = WrittenAddend(strip(text))
    ELSE pc = "raised"

\* The scaling term a text of the grammar writes: its sign ("" if there is
\* none) and its magnitude.
WrittenScale(s) ==
  IF \E k \in 1..Len(s) : s[k] \in {"*", "/"}
  THEN LET k == CHOOSE k \in 1..Len(s) : s[k] \in {"*", "/"}
       IN [sign |-> s[k], magnitude |-> DigitsValue(SubSeq(s, k + 1, k + DigitRun(s, k + 1)))]
  ELSE [sign |-> "", magnitude |-> 1]

\* The scaling step the text asks for, applied to the sum S >= 0 of the draws.
Step(s, S) ==
  CASE WrittenScale(s).sign = "*" -> S * WrittenScale(s).magnitude
    [] WrittenScale(s).sign = "/" -> S \div WrittenScale(s).magnitude
    [] OTHER -> S

\* C13: for a text of the grammar that from_string accepted (with sides >= 1
\* and no division by a zero magnitude), every roll() returns
\* max(0, step(S) + addend), where S is the sum of the draws and step is the
\* multiplication or division the text writes (the identity if it writes
\* none); the result is never negative.
C13_RollFollowsText ==
  ( /\ Rolled /\ text # <<>> /\ InGrammar(strip(text))
    /\ dice.sides >= 1
    /\ ~(WrittenScale(strip(text)).sign = "/" /\ WrittenScale(strip(text)).magnitude = 0) ) =>
    /\ ret.val[1] = Max2(Step(strip(text), SumSeq(ret.val[2])) + WrittenAddend(strip(text)), 0)
    /\ ret.val[1] >= 0

(***************************************************************************)
(* character.py / equipment.py: one Character (the record c) with its      *)
(* hit points, ability scores, equipment slots and stored armor class.     *)
(***************************************************************************)
BASE_ARMOR_CLASS == 9
MAX_MAGIC_BONUS == 5

\* The ability the armor class reads.  The other five abilities are rolled
\* and damaged by the same statements and are read by nothing modelled here.
Ability == {"DEXTERITY"}

\* Character.ABILITY_DICE, indexed from 1: 3d6, 2d6+6, 2d4+10, 2d3+12.
ABILITY_DICE ==
  << Dice(3, 6, 1, 0), Dice(2, 6, 1, 6), Dice(2, 4, 1, 10), Dice(2, 3, 1, 12) >>

Min2(a, b) == IF a <= b THEN a ELSE b

\* An empty equipment slot (Python None, which is false in `if`).
NoArmor == [armor_type |-> None, base_armor |-> 0, magic_bonus |-> 0]

\* Armor.__init__ / Equipment.__init__: the magic bonus is capped.
Armor(armor_type, base_armor, magic_bonus) ==
  [armor_type |-> armor_type, base_armor |-> base_armor,
   magic_bonus |-> Min2(magic_bonus, MAX_MAGIC_BONUS)]

ArmorType == {"PLATE", "CHAIN", "LEATHER", "SHIELD"}

\* Armor.make_type
make_type(armor_type, magic_bonus) ==
  CASE armor_type = "PLATE" -> Armor(armor_type, 6, magic_bonus)
    [] armor_type = "CHAIN" -> Armor(armor_type, 4, magic_bonus)
    [] armor_type = "LEATHER" -> Armor(armor_type, 2, magic_bonus)
    [] armor_type = "SHIELD" -> Armor(armor_type, 1, magic_bonus)

\* Armor.get_armor_class
armor_get_armor_class(armor) == armor.base_armor + armor.magic_bonus

\* `if self.armor_worn:` -- an Armor object is true, None is false.
Truthy(armor) == armor.armor_type # None

\* The current score without the floor at zero.
get_ability_score_unfloored(c, ability) ==
  c.ability_scores[ability] - c.ability_score_damage[ability]

get_ability_score(c, ability) ==
  Max2(0, c.ability_scores[ability] - c.ability_score_damage[ability])

get_ability_modifier_low(c, ability) ==
  IF get_ability_score(c, ability) < 8 THEN -1
  ELSE IF get_ability_score(c, ability) <= 12 THEN 0
  ELSE 1

get_ability_modifier(c, ability) ==
  IF get_ability_score(c, ability) <= 8 THEN -1
  ELSE IF get_ability_score(c, ability) <= 12 THEN 0
  ELSE 1

update_armor_class(c) ==
  LET ac0 == BASE_ARMOR_CLASS
      ac1 == IF Truthy(c.armor_worn) THEN ac0 - armor_get_armor_class(c.armor_worn) ELSE ac0
      ac2 == IF Truthy(c.shield_held) THEN ac1 - armor_get_armor_class(c.shield_held) ELSE ac1
      dex_mod == get_ability_modifier(c, "DEXTERITY")
  IN [c EXCEPT !.armor_class = ac2 - dex_mod]

set_armor(c, armor) == update_armor_class([c EXCEPT !.armor_worn = armor])

set_shield(c, shield) == update_armor_class([c EXCEPT !.shield_held = shield])

take_ability_damage(c, ability, damage) ==
  [c EXCEPT !.ability_score_damage[ability] = @ + damage]

zero_ability_damage(c) ==
  [c EXCEPT !.ability_score_damage = [ability \in DOMAIN c.ability_scores |-> 0]]

\* roll_ability_scores with the outcome `scores` of the dice.roll() calls.
roll_ability_scores(c, scores) ==
  [c EXCEPT !.ability_scores = scores,
            !.ability_score_damage = [ability \in DOMAIN scores |-> 0]]

\* Monster.get_armor_class
get_armor_class(c) == c.armor_class

\* Monster.roll_hit_points with the outcome points of hit_dice.roll().
roll_hit_points(c, points) == [c EXCEPT !.hit_points = points, !.max_hit_points = points]

\* Variant: the level rises but the hit dice stay those of the old level.
level_up_same_dice(c, points) ==
  roll_hit_points([c EXCEPT !.level = @ + 1], points)

\* Character.level_up with the outcome points of the new hit dice's roll.
level_up(c, points) ==
  roll_hit_points([c EXCEPT !.level = @ + 1,
                            !.hit_dice = Dice(c.level + 1, HIT_DIE_SIDES, 1, 0)], points)

\* Character(name, level) after __init__: scores is the outcome of
\* roll_ability_scores(), points that of the final roll_hit_points().  The armor
\* class is the BASE_ARMOR_CLASS handed to Monster.__init__.
Character(level, scores, points) ==
  [level |-> level, hit_dice |-> CharacterHitDice(level),
   hit_points |-> points, max_hit_points |-> points,
   armor_class |-> BASE_ARMOR_CLASS,
   ability_scores |-> scores,
   ability_score_damage |-> [ability \in DOMAIN scores |-> 0],
   armor_worn |-> NoArmor, shield_held |-> NoArmor,
   experience_points |-> 0]

\* Every Character the constructor can return for the level.
Characters(level) ==
  {Character(level, scores, points) :
     scores \in [Ability -> RollOutcomes(ABILITY_DICE[1])],
     points \in RollOutcomes(CharacterHitDice(level))}

\* A one-object heap, for the Monster operations written over heaps.
Self(c) == [m \in {"self"} |-> c]

(***************************************************************************)
(* A Character's hit points driven directly: a caller damages, heals,      *)
(* re-rolls and levels one Character in any order.                         *)
(***************************************************************************)
CombatantInit ==
  /\ arena = BaseConfig
  /\ args = <<>>
  /\ pc = "combatant"
  /\ year = 0
  /\ cycle = 0
  /\ duel_i = 0
  /\ members = <<>>
  /\ monsters = EmptyHeap
  /\ ret = NoReturn
  /\ calls = <<>>
  /\ hero \in Characters(1)
  /\ pre = hero
  /\ engaged = <<>>
  /\ blows = <<>>
  /\ start_alive = FALSE
  /\ death_seen = FALSE
  /\ size_after_recruit = 0
  /\ dice = None
  /\ text = <<>>
  /\ item = None

\* Everything but hero, ret and pre (the hero at entry of the last call).
hero_frame == <<arena, args, pc, position, population, calls, engaged, blows,
                start_alive, death_seen, size_after_recruit, dice, text, item>>

\* hero.take_damage(damage), for any integer; returns hit_points > 0.  The
\* caller stops before the hit points leave -MaxDamage..max_hit_points+MaxDamage.
HeroTakeDamage ==
  /\ pc = "combatant"
  /\ \E damage \in (0 - MaxDamage)..MaxDamage :
       /\ hero.hit_points - damage >= 0 - MaxDamage
       /\ hero.hit_points - damage <= hero.max_hit_points + MaxDamage
       /\ hero' = take_damage(Self(hero), "self", damage)["self"]
       /\ ret' = Returned("take_damage", <<hero'.hit_points > 0, damage>>)
  /\ pre' = hero
  /\ UNCHANGED hero_frame

HeroHealFully ==
  /\ pc = "combatant"
  /\ hero' = heal_fully(Self(hero), "self")["self"]
  /\ ret' = Returned("heal_fully", <<>>)
  /\ pre' = hero
  /\ UNCHANGED hero_frame

HeroRollHitPoints ==
  /\ pc = "combatant"
  /\ \E points \in RollOutcomes(hero.hit_dice) : hero' = roll_hit_points(hero, points)
  /\ ret' = Returned("roll_hit_points", <<>>)
  /\ pre' = hero
  /\ UNCHANGED hero_frame

HeroLevelUp ==
  /\ pc = "combatant"
  /\ hero.level < MaxHeroLevel
  /\ \E points \in RollOutcomes(Dice(hero.level + 1, HIT_DIE_SIDES, 1, 0)) :
       hero' = level_up(hero, points)
  /\ ret' = Returned("level_up", <<>>)
  /\ pre' = hero
  /\ UNCHANGED hero_frame

\* hero.is_alive() and hero.is_dead(), one after the other.
HeroIsAlive ==
  /\ pc = "combatant"
  /\ ret' = Returned("is_alive, is_dead",
                     <<is_alive(Self(hero), "self"), is_dead(Self(hero), "self")>>)
  /\ pre' = hero
  /\ UNCHANGED <<hero, hero_frame>>

CombatantNext ==
  \/ HeroTakeDamage
  \/ HeroHealFully
  \/ HeroRollHitPoints
  \/ HeroLevelUp
  \/ HeroIsAlive

SpecCombatant == CombatantInit /\ [][CombatantNext]_vars

TookDamage == pc = "combatant" /\ ret.op = "take_damage"

\* C14: take_damage(amount) with amount <= 0 changes nothing: it does not
\* raise, hit_points and max_hit_points are what they were before the call,
\* and it returns whether hit_points > 0.
C14_NonPositiveDamageNoOp ==
  (TookDamage /\ ret.val[2] <= 0) =>
    /\ hero.hit_points = pre.hit_points
    /\ hero.max_hit_points = pre.max_hit_points
    /\ ret.val[1] = (hero.hit_points > 0)

\* C15: after construction and any sequence of take_damage (any integer),
\* heal_fully, roll_hit_points and level_up, hit_points <= max_hit_points.
C15_HitPointsAtMostMax ==
  pc = "combatant" => hero.hit_points <= hero.max_hit_points

\* C16: take_damage(d) with d at least the current hit points leaves
\* hit_points = old - d exactly (zero or below, not floored), is_alive()
\* false, is_dead() true, and returns false; every take_damage returns
\* is_alive() of the state it leaves and subtracts exactly d.
C16_Overkill ==
  TookDamage =>
    /\ hero.hit_points = pre.hit_points - ret.val[2]
    /\ ret.val[1] = is_alive(Self(hero), "self")
    /\ ret.val[2] >= pre.hit_points =>
         /\ hero.hit_points <= 0
         /\ ~is_alive(Self(hero), "self")
         /\ is_dead(Self(hero), "self")
         /\ ret.val[1] = FALSE

\* A living hero took more damage than it had hit points left.
C16_Witness ==
  /\ TookDamage
  /\ pre.hit_points > 0
  /\ ret.val[2] > pre.hit_points
  /\ hero.hit_points < 0
  /\ ret.val[1] = FALSE

\* C17: heal_fully leaves hit_points = max_hit_points whatever the hit
\* points were before (zero, negative, above the maximum), leaves
\* max_hit_points alone, and a second heal_fully changes nothing.
C17_HealFully ==
  /\ (pc = "combatant" /\ ret.op = "heal_fully") =>
       /\ hero.hit_points = hero.max_hit_points
       /\ hero.max_hit_points = pre.max_hit_points
  /\ pc = "combatant" =>
       /\ heal_fully(Self(hero), "self")["self"].hit_points = hero.max_hit_points
       /\ heal_fully(Self(hero), "self")["self"].max_hit_points = hero.max_hit_points
       /\ heal_fully(heal_fully(Self(hero), "self"), "self") = heal_fully(Self(hero), "self")

\* heal_fully has been applied to a dead hero, and (in another state) to one
\* whose hit points a negative damage had pushed above the maximum.
C17_Witness ==
  /\ pc = "combatant" /\ ret.op = "heal_fully"
  /\ pre.hit_points > pre.max_hit_points
  /\ hero.hit_points = hero.max_hit_points

(***************************************************************************)
(* A Character's armor class driven directly: a caller equips one          *)
(* Character, damages and restores its abilities and re-rolls them, in any *)
(* order, and reads the armor class.                                       *)
(***************************************************************************)
MaxMagicBonus == 1
MaxAbilityDamage == 2

\* What the caller hands to set_armor and to set_shield.
ArmorChoices ==
  {NoArmor} \cup {make_type(armor_type, magic_bonus) :
                    armor_type \in ArmorType \ {"SHIELD"}, magic_bonus \in 0..MaxMagicBonus}
ShieldChoices ==
  {NoArmor} \cup {make_type("SHIELD", magic_bonus) : magic_bonus \in 0..MaxMagicBonus}

CharacterInit ==
  /\ arena = BaseConfig
  /\ args = <<>>
  /\ pc = "character"
  /\ year = 0
  /\ cycle = 0
  /\ duel_i = 0
  /\ members = <<>>
  /\ monsters = EmptyHeap
  /\ ret = NoReturn
  /\ calls = <<>>
  /\ pre = NoSnapshot
  /\ hero \in Characters(1)
  /\ engaged = <<>>
  /\ blows = <<>>
  /\ start_alive = FALSE
  /\ death_seen = FALSE
  /\ size_after_recruit = 0
  /\ dice = None
  /\ text = <<>>
  /\ item = None

HeroSetArmor ==
  /\ pc = "character"
  /\ \E armor \in ArmorChoices : hero' = set_armor(hero, armor)
  /\ ret' = Returned("set_armor", <<>>)
  /\ UNCHANGED <<hero_frame, pre>>

HeroSetShield ==
  /\ pc = "character"
  /\ \E shield \in ShieldChoices : hero' = set_shield(hero, shield)
  /\ ret' = Returned("set_shield", <<>>)
  /\ UNCHANGED <<hero_frame, pre>>

\* hero.take_ability_damage(ability, damage); the caller stops at
\* MaxAbilityDamage points of damage in all.
HeroTakeAbilityDamage ==
  /\ pc = "character"
  /\ \E ability \in Ability, damage \in 1..MaxAbilityDamage :
       /\ hero.ability_score_damage[ability] + damage <= MaxAbilityDamage
       /\ hero' = take_ability_damage(hero, ability, damage)
  /\ ret' = Returned("take_ability_damage", <<>>)
  /\ UNCHANGED <<hero_frame, pre>>

HeroZeroAbilityDamage ==
  /\ pc = "character"
  /\ hero' = zero_ability_damage(hero)
  /\ ret' = Returned("zero_ability_damage", <<>>)
  /\ UNCHANGED <<hero_frame, pre>>

\* hero.roll_ability_scores(dice_option), dice_option in 0..3.
HeroRollAbilityScores ==
  /\ pc = "character"
  /\ \E dice_option \in 0..(Len(ABILITY_DICE) - 1) :
       \E scores \in [Ability -> RollOutcomes(ABILITY_DICE[dice_option + 1])] :
         hero' = roll_ability_scores(hero, scores)
  /\ ret' = Returned("roll_ability_scores", <<>>)
  /\ UNCHANGED <<hero_frame, pre>>

HeroGetArmorClass ==
  /\ pc = "character"
  /\ ret' = Returned("get_armor_class", <<get_armor_class(hero)>>)
  /\ UNCHANGED <<hero, hero_frame, pre>>

CharacterNext ==
  \/ HeroSetArmor
  \/ HeroSetShield
  \/ HeroTakeAbilityDamage
  \/ HeroZeroAbilityDamage
  \/ HeroRollAbilityScores
  \/ HeroGetArmorClass

SpecCharacter == CharacterInit /\ [][CharacterNext]_vars

\* The dexterity modifier as the armor class rules state it.
DexModifier(score) == IF score <= 8 THEN -1 ELSE IF score <= 12 THEN 0 ELSE 1

\* The contribution of an equipment slot: base plus magic bonus, 0 when empty.
SlotValue(armor) ==
  IF armor = NoArmor THEN 0 ELSE armor.base_armor + armor.magic_bonus

\* The armor class the hero's equipment and current dexterity call for.
DerivedArmorClass ==
  9 - SlotValue(hero.armor_worn) - SlotValue(hero.shield_held)
    - DexModifier(get_ability_score(hero, "DEXTERITY"))

FreshCharacter ==
  pc = "character" /\ ret = NoReturn /\ hero.armor_worn = NoArmor /\ hero.shield_held = NoArmor

\* C18: a freshly constructed Character without equipment has armor class
\* 9 minus its dexterity modifier, whatever dexterity it rolled: 10 for a
\* score of 8 or less, 9 for 9..12, 8 for 13 or more.
C18_FreshArmorClass ==
  FreshCharacter =>
    /\ get_armor_class(hero) = 9 - DexModifier(hero.ability_scores["DEXTERITY"])
    /\ hero.ability_scores["DEXTERITY"] <= 8 => get_armor_class(hero) = 10
    /\ hero.ability_scores["DEXTERITY"] >= 13 => get_armor_class(hero) = 8

\* C19: in every state reached by one or more of set_armor, set_shield,
\* take_ability_damage(DEXTERITY, n), zero_ability_damage and
\* roll_ability_scores, get_armor_class() is 9 minus the worn armor's
\* base + magic bonus, minus the held shield's, minus the modifier of the
\* current dexterity score.
C19_ArmorClassDerived ==
  (pc = "character" /\ ret # NoReturn) => get_armor_class(hero) = DerivedArmorClass

\* C20: right after set_armor or set_shield the armor class is 9 minus the
\* armor's base + magic bonus (0 if the slot is empty), minus the shield's,
\* minus the dexterity modifier (-1 up to 8, 0 for 9..12, +1 from 13);
\* plate with a +1 shield at dexterity 10 gives armor class 1.
C20_ArmorClassAfterEquip ==
  (pc = "character" /\ ret.op \in {"set_armor", "set_shield"}) =>
    /\ get_armor_class(hero) = DerivedArmorClass
    /\ ( /\ hero.armor_worn = make_type("PLATE", 0)
         /\ hero.shield_held = make_type("SHIELD", 1)
         /\ get_ability_score(hero, "DEXTERITY") = 10 ) => get_armor_class(hero) = 1

\* Plate was put on a hero of current dexterity 8 who holds a +1 shield and
\* whose dexterity had been damaged since the armor class was last computed.
C20_Witness ==
  /\ pc = "character" /\ ret.op = "set_armor"
  /\ hero.armor_worn = make_type("PLATE", 0)
  /\ hero.shield_held = make_type("SHIELD", 1)
  /\ hero.ability_score_damage["DEXTERITY"] > 0
  /\ get_ability_score(hero, "DEXTERITY") = 8
  /\ get_armor_class(hero) = 2

LevelledUp == pc = "combatant" /\ ret.op = "level_up"

\* C21: level_up() raises the level by exactly 1, makes the hit dice
\* (new level)d6 and re-rolls the hit points from them: afterwards
\* hit_points = max_hit_points and new level <= max_hit_points <= 6 * new
\* level, whatever the hit points were before; no operation lowers the level.
C21_LevelUp ==
  /\ LevelledUp =>
       /\ hero.level = pre.level + 1
       /\ hero.hit_dice = Dice(hero.level, 6, 1, 0)
       /\ hero.hit_points = hero.max_hit_points
       /\ hero.level <= hero.max_hit_points
       /\ hero.max_hit_points <= 6 * hero.level
  /\ pc = "combatant" => hero.level >= pre.level

\* A dead hero whose hit points were not at their maximum levelled up and
\* rolled more than the old hit dice could give.
C21_Witness ==
  /\ LevelledUp
  /\ pre.hit_points <= 0
  /\ pre.hit_points # pre.max_hit_points
  /\ hero.max_hit_points > 6 * pre.level

(***************************************************************************)
(* equipment.py driven directly: a caller builds one piece of equipment    *)
(* and sets, increments and reads its magic bonus in any order.            *)
(***************************************************************************)
set_magic_bonus_uncapped(e, bonus) == [e EXCEPT !.magic_bonus = bonus]

set_magic_bonus(e, bonus) == [e EXCEPT !.magic_bonus = Min2(bonus, MAX_MAGIC_BONUS)]

inc_magic_bonus(e) == set_magic_bonus(e, e.magic_bonus + 1)

get_magic_bonus(e) == e.magic_bonus

\* The bonuses a caller asks for: from cursed to beyond the cap.
BonusArgs == (0 - MaxMagicBonus)..(MAX_MAGIC_BONUS + MaxMagicBonus)

EquipmentInit ==
  /\ arena = BaseConfig
  /\ args = <<>>
  /\ pc = "equipment"
  /\ year = 0
  /\ cycle = 0
  /\ duel_i = 0
  /\ members = <<>>
  /\ monsters = EmptyHeap
  /\ ret = NoReturn
  /\ calls = <<>>
  /\ item \in {make_type(armor_type, magic_bonus) :
                 armor_type \in ArmorType, magic_bonus \in BonusArgs}
  /\ pre = item
  /\ engaged = <<>>
  /\ blows = <<>>
  /\ start_alive = FALSE
  /\ death_seen = FALSE
  /\ size_after_recruit = 0
  /\ dice = None
  /\ text = <<>>
  /\ hero = None

\* Everything but item, ret and pre (the item at entry of the last call).
item_frame == <<arena, args, pc, position, population, calls, engaged, blows,
                start_alive, death_seen, size_after_recruit, dice, text, hero>>

\* item.set_magic_bonus(bonus); ret keeps the argument.
ItemSetMagicBonus ==
  /\ pc = "equipment"
  /\ \E bonus \in BonusArgs :
       /\ item' = set_magic_bonus(item, bonus)
       /\ ret' = Returned("set_magic_bonus", <<bonus>>)
  /\ pre' = item
  /\ UNCHANGED item_frame

ItemIncMagicBonus ==
  /\ pc = "equipment"
  /\ item' = inc_magic_bonus(item)
  /\ ret' = Returned("inc_magic_bonus", <<>>)
  /\ pre' = item
  /\ UNCHANGED item_frame

ItemGetMagicBonus ==
  /\ pc = "equipment"
  /\ ret' = Returned("get_magic_bonus", <<get_magic_bonus(item)>>)
  /\ pre' = item
  /\ UNCHANGED <<item, item_frame>>

EquipmentNext ==
  \/ ItemSetMagicBonus
  \/ ItemIncMagicBonus
  \/ ItemGetMagicBonus

SpecEquipment == EquipmentInit /\ [][EquipmentNext]_vars

\* C22: after construction and any sequence of set_magic_bonus(b) and
\* inc_magic_bonus(), get_magic_bonus() is at most 5; set_magic_bonus(b)
\* leaves min(b, 5), inc_magic_bonus() leaves min(old + 1, 5) and so 5 at 5,
\* and get_magic_bonus() returns the stored bonus.
C22_MagicBonusCapped ==
  pc = "equipment" =>
    /\ get_magic_bonus(item) <= 5
    /\ ret.op = "set_magic_bonus" =>
         item.magic_bonus = (IF ret.val[1] <= 5 THEN ret.val[1] ELSE 5)
    /\ ret.op = "inc_magic_bonus" =>
         item.magic_bonus = (IF pre.magic_bonus < 5 THEN pre.magic_bonus + 1 ELSE 5)
    /\ ret.op = "get_magic_bonus" => ret.val = <<item.magic_bonus>>
    /\ item.armor_type = pre.armor_type /\ item.base_armor = pre.base_armor

\* inc_magic_bonus() was called on an item whose bonus was already 5.
C22_Witness ==
  /\ pc = "equipment" /\ ret.op = "inc_magic_bonus"
  /\ pre.magic_bonus = 5
  /\ item.magic_bonus = 5

\* C23: get_highest_level_member() on an empty Party raises; it never
\* returns a value (None, zero or any other) for it.
C23_HighestOfEmptyRaises ==
  (pc = "party" /\ ret.op = "get_highest_level_member" /\ members = <<>>) =>
    ret.val.raised

(***************************************************************************)
(* A Character's experience driven directly: a caller awards experience    *)
(* points (any integer), levels the Character up and reads the total.      *)
(***************************************************************************)
MaxXp == 2

add_xp(c, xp) == [c EXCEPT !.experience_points = @ + xp]

get_xp(c) == c.experience_points

\* hero.add_xp(xp), for any integer; the caller stops before the total
\* leaves -MaxXp..MaxXp.  ret keeps the argument.
HeroAddXp ==
  /\ pc = "combatant"
  /\ \E xp \in (0 - MaxXp)..MaxXp :
       /\ Abs(hero.experience_points + xp) <= MaxXp
       /\ hero' = add_xp(hero, xp)
       /\ ret' = Returned("add_xp", <<xp>>)
  /\ pre' = hero
  /\ UNCHANGED hero_frame

HeroGetXp ==
  /\ pc = "combatant"
  /\ ret' = Returned("get_xp", <<get_xp(hero)>>)
  /\ pre' = hero
  /\ UNCHANGED <<hero, hero_frame>>

ExperienceNext ==
  \/ HeroAddXp
  \/ HeroGetXp
  \/ HeroLevelUp

SpecExperience == CombatantInit /\ [][ExperienceNext]_vars

\* C24: experience points never decrease: after every operation, add_xp(x)
\* with any integer x included, get_xp() is at least what it was before.
C24_XpMonotone ==
  pc = "combatant" => get_xp(hero) >= get_xp(pre)

(***************************************************************************)
(* A Character's six abilities driven directly: a caller re-rolls them     *)
(* with any of the four ability dice, damages single abilities, clears     *)
(* the damage and reads the current scores.                                *)
(***************************************************************************)
MaxDrain == 4

\* enums.Ability
AllAbilities ==
  {"STRENGTH", "INTELLIGENCE", "WISDOM", "DEXTERITY", "CONSTITUTION", "CHARISMA"}

\* Outcomes of the six dice.roll() calls of roll_ability_scores: the first
\* ability takes any result of the dice, the other five its highest.
ScoreSheets(d) ==
  {[ability \in AllAbilities |-> IF ability = "STRENGTH" THEN score ELSE max_roll(d)] :
     score \in RollOutcomes(d)}

RECURSIVE SumOver(_, _)
SumOver(f, S) ==
  IF S = {} THEN 0
  ELSE LET x == CHOOSE x \in S : TRUE IN f[x] + SumOver(f, S \ {x})

AbilitiesInit ==
  /\ arena = BaseConfig
  /\ args = <<>>
  /\ pc = "abilities"
  /\ year = 0
  /\ cycle = 0
  /\ duel_i = 0
  /\ members = <<>>
  /\ monsters = EmptyHeap
  /\ ret = NoReturn
  /\ calls = <<>>
  /\ hero \in {Character(1, scores, max_roll(CharacterHitDice(1))) :
                 scores \in ScoreSheets(ABILITY_DICE[1])}
  /\ pre = hero
  /\ engaged = <<>>
  /\ blows = <<>>
  /\ start_alive = FALSE
  /\ death_seen = FALSE
  /\ size_after_recruit = 0
  /\ dice = None
  /\ text = <<>>
  /\ item = None

\* hero.roll_ability_scores(dice_option), dice_option in 0..3; ret keeps the
\* argument, pre the freshly rolled sheet.
SheetRollAbilityScores ==
  /\ pc = "abilities"
  /\ \E dice_option \in 0..(Len(ABILITY_DICE) - 1) :
       \E scores \in ScoreSheets(ABILITY_DICE[dice_option + 1]) :
         /\ hero' = roll_ability_scores(hero, scores)
         /\ ret' = Returned("roll_ability_scores", <<dice_option>>)
  /\ pre' = hero'
  /\ UNCHANGED hero_frame

\* hero.take_ability_damage(ability, damage) with damage >= 0; the caller
\* stops at MaxDrain points of damage over all abilities.  ret keeps the
\* arguments.
SheetTakeAbilityDamage ==
  /\ pc = "abilities"
  /\ \E ability \in AllAbilities, damage \in 0..MaxDrain :
       /\ SumOver(hero.ability_score_damage, AllAbilities) + damage <= MaxDrain
       /\ hero' = take_ability_damage(hero, ability, damage)
       /\ ret' = Returned("take_ability_damage", <<ability, damage>>)
  /\ pre' = hero
  /\ UNCHANGED hero_frame

SheetZeroAbilityDamage ==
  /\ pc = "abilities"
  /\ hero' = zero_ability_damage(hero)
  /\ ret' = Returned("zero_ability_damage", <<>>)
  /\ pre' = hero
  /\ UNCHANGED hero_frame

\* hero.get_ability_score(ability) for each of the six abilities in turn.
SheetGetAbilityScores ==
  /\ pc = "abilities"
  /\ ret' = Returned("get_ability_score",
                     [ability \in AllAbilities |-> get_ability_score(hero, ability)])
  /\ pre' = hero
  /\ UNCHANGED <<hero, hero_frame>>

AbilitiesNext ==
  \/ SheetRollAbilityScores
  \/ SheetTakeAbilityDamage
  \/ SheetZeroAbilityDamage
  \/ SheetGetAbilityScores

SpecAbilities == AbilitiesInit /\ [][AbilitiesNext]_vars

ManVsMan ==
  /\ ~arena.fight_man_vs_monster
  /\ arena.start_level >= 1
  /\ arena.num_fighters >= 0

CycleCompletedBefore == \E k \in DOMAIN calls : calls[k][1] = "heal_all"

FairInit == Init /\ arena.num_years < MaxYears

SpecFair == FairInit /\ [][Next]_vars /\ WF_vars(Next)

RunReturned == pc = "returned"

\* recruit_new_fighters adds a member and stays in its loop.
RecruitStep == pc = "recruit" /\ pc' = "recruit"

\* One of the two duelists strikes.
BlowStep == pc \in {"blow1", "blow2"} /\ pc' # pc

\* C27: Arena.run returns for every configuration: each pass of the recruit
\* loop adds one member and never goes beyond num_fighters, each blow of a
\* duel lowers the combined hit points of the two duelists by at least 1, and
\* every run eventually returns.
C27_Terminates ==
  /\ [][RecruitStep => /\ Len(members') = Len(members) + 1
                       /\ Len(members') <= arena.num_fighters]_vars
  /\ [][BlowStep => monsters'[fighter1].hit_points + monsters'[fighter2].hit_points
                      <= monsters[fighter1].hit_points + monsters[fighter2].hit_points - 1]_vars
  /\ <>RunReturned

\* A run in which fighters were recruited and duelled has returned.
C27_Witness ==
  /\ RunReturned
  /\ ~arena.exit_after_args
  /\ ~arena.fight_man_vs_monster
  /\ arena.start_level >= 1
  /\ arena.num_fighters >= 2
  /\ \E k \in DOMAIN calls : calls[k][1] = "heal_all"

(***************************************************************************)
(* The dead leave before the living are healed.                            *)
(***************************************************************************)
\* Between two cycles: the cycle loop, year_end, the year loop and the end
\* of the run.
BetweenCycles == pc \in {"cycles", "year_end", "run_sim", "final", "returned"}

NobodyDead ==
  /\ num_dead(members, monsters) = 0
  /\ num_living(members, monsters) = get_size(members)

\* C28: the fighters who died in a cycle are off the list before heal_all
\* runs: heal_all is called on a list of living members only, so it restores
\* no dead fighter; every member carried into a later cycle is alive; and
\* whenever year_end is called num_dead() = 0 and num_living() = get_size().
C28_DeadLeaveBeforeHealing ==
  /\ pc = "heal" => NobodyDead
  /\ BetweenCycles => NobodyDead
  /\ pc = "recruit" => \A m \in Range(pre.members) : is_alive(pre.monsters, m)

\* year_end is about to be called after a cycle in which a fighter died, with
\* survivors on the list.
C28_Witness ==
  /\ pc = "year_end"
  /\ death_seen
  /\ members # <<>>
  /\ ~arena.fight_man_vs_monster

(***************************************************************************)
(* What the simulation loop leaves alone.                                  *)
(***************************************************************************)
\* The fields of a fighter other than the current hit points.
Sheet(f) ==
  <<f.level, f.experience_points, f.kill_tally, f.max_hit_points,
    f.armor_worn, f.weapon_in_hand>>

\* C29: no step of the simulation changes the level, experience, kill tally,
\* maximum hit points or equipment of a fighter once recruited (duels and
\* healing change the current hit points only); whenever year_end is called
\* every member's level is start_level, and the average level of a non-empty
\* population equals start_level.
C29_FightersKeepTheirSheet ==
  /\ [][\A m \in DOMAIN monsters \cap DOMAIN monsters' :
          Sheet(monsters'[m]) = Sheet(monsters[m])]_vars
  /\ [](pc = "year_end" =>
          /\ \A m \in Range(members) :
               /\ monsters[m].level = arena.start_level
               /\ monsters[m].experience_points = 0
               /\ monsters[m].kill_tally = 0
          /\ members # <<>> =>
               get_average_level(members, monsters).num =
                 arena.start_level * get_average_level(members, monsters).den)

\* year_end is about to be called with survivors of a cycle of duels.
C29_Witness ==
  /\ pc = "year_end"
  /\ members # <<>>
  /\ death_seen
  /\ arena.start_level >= 1
  /\ arena.num_fighters >= 2

(***************************************************************************)
(* Arguments that end the run before the simulation.                       *)
(***************************************************************************)
ValueOption(arg) ==
  /\ Len(arg) >= 3
  /\ arg[1] = "-"
  /\ arg[2] \in {"y", "f", "n", "l", "p", "a"}
  /\ arg[3] = "="

ValueText(arg) == SubSeq(arg, 4, Len(arg))

\* '-?', an unknown '-' option, a '-x=' option whose value is missing or not
\* an integer, an armor code outside 0..3, or an unknown reporting letter.
BadArgument(arg) ==
  /\ arg # <<>>
  /\ arg[1] = "-"
  /\ \/ arg = <<"-", "?">>
     \/ ValueOption(arg) /\ ~IsIntText(ValueText(arg))
     \/ /\ ValueOption(arg) /\ arg[2] = "a" /\ IsIntText(ValueText(arg))
        /\ IntValue(ValueText(arg)) \notin 0..3
     \/ /\ Len(arg) >= 2 /\ arg[2] = "r"
        /\ \E k \in 3..Len(arg) : arg[k] \notin {"s", "d", "k", "t", "x", "y"}
     \/ /\ ~ValueOption(arg)
        /\ ~(Len(arg) >= 2 /\ arg[2] = "r")
        /\ arg \notin {<<"-", "?">>, <<"-", "m">>, <<"-", "t">>}

ReadsArgument == pc = "parse_args" /\ args # <<>> /\ args' = Tail(args)

\* C30: exit_after_args is sticky: every bad argument sets it, no later step
\* clears it, and when it is set Arena.run returns without calling run_sim,
\* whatever the position of the bad argument and whatever the others are.
C30_ExitAfterArgsSticky ==
  /\ [][(ReadsArgument /\ BadArgument(Head(args))) => arena'.exit_after_args]_vars
  /\ [][arena.exit_after_args => arena'.exit_after_args]_vars
  /\ [](arena.exit_after_args =>
          /\ pc \in {"parse_args", "returned"}
          /\ calls = <<>>
          /\ members = <<>>)

\* Arena.run has returned without simulating: a bad argument and '-n=2' were
\* both read.
C30_Witness ==
  /\ pc = "returned"
  /\ arena.exit_after_args
  /\ arena.num_fighters = 2
  /\ calls = <<>>

============================================================================
